---- MODULE Spec2Model ----
(***************************************************************************)
(* crunchio: a cursor buffer (root or reference) over a growable byte      *)
(* store (github.com/superwhiskers/crunch/v3).  The model follows the      *)
(* third iteration of the design in src/crunchio.go (lines 257-637), the   *)
(* one with parent/reference aliasing, per-instance locks and Close.       *)
(*                                                                         *)
(* A Go byte slice is modelled as (array id, length); the capacity of the  *)
(* slice is the length of the array it points into.  Two slices with the   *)
(* same array id share their bytes.                                        *)
(***************************************************************************)
EXTENDS Integers, Sequences, FiniteSets, TLC

\* ---------------------------------------------------------------- bounds
MaxBufs == 3     \* Cursor Buffer instances that may exist
MaxCap  == 3     \* largest store capacity a write may produce
MaxLen  == 2     \* longest source slice / destination of a call
MaxOps  == 2     \* calls made by the (single) caller after construction

BufIds   == 1..MaxBufs
StoreIds == BufIds              \* a store is named after the root that made it
ArrIds   == 1..(MaxBufs + 1)    \* backing arrays (0 is the empty slice []byte{})
DataBytes == {1, 2}
Offs     == -1..MaxCap

\* The slices a caller writes: for every length up to MaxLen the two
\* sequences that alternate the data bytes, so that neighbours always differ.
Alternating(first, n) == [i \in 1..n |-> IF i % 2 = 1 THEN first ELSE 3 - first]
Srcs == {Alternating(first, n) : first \in DataBytes, n \in 0..MaxLen}

\* Arguments the caller passes to WriteOffset and to Seek (kept fewer than
\* those of Write: a reference's Write reaches WriteOffset with every Srcs).
OffSrcs == {s \in Srcs : Len(s) <= 1}
SeekTos == -1..1

\* io.SeekStart, io.SeekCurrent, io.SeekEnd and one value that is none of them
SeekStart   == 0
SeekCurrent == 1
SeekEnd     == 2
Whences     == 0..3

VARIABLES
  bufs,     \* the Buffer structs: parent, buffer, length, offset, closed
  stores,   \* the crunch buffers: the slice b.buf as (array, length)
  arrays,   \* the arrays the slices point into
  ret,      \* the last call made and what it returned
  nops,     \* calls made so far
  copyOf,   \* history: copyOf[c] = b when c was returned by b.Copy()
  thr,      \* concurrent callers: each one's call, position in it and locals
  mutex     \* the sync.Mutex of every Buffer: 0 when free, else its holder

vars == <<bufs, stores, arrays, ret, nops, copyOf, thr, mutex>>

\* The machine state the operations transform.
Machine == [bufs |-> bufs, stores |-> stores, arrays |-> arrays]

NoBuf == [live |-> FALSE, parent |-> 0, buffer |-> 0, length |-> 0, offset |-> 0,
          closed |-> FALSE]
NoStore == [arr |-> 0, cap |-> 0]

\* ------------------------------------------------- crunch.Buffer (the store)
ArrOf(m, a) == IF a = 0 THEN <<>> ELSE m.arrays[a]

\* cap(b.buf)
GoCap(m, s) == Len(ArrOf(m, m.stores[s].arr))

\* crunch.Buffer.ByteCapacity: b.cap, which Refresh keeps equal to len(b.buf)
CrunchByteCapacity(m, s) == m.stores[s].cap

\* crunch.Buffer.Bytes: the internal slice itself, not a copy
CrunchBytes(m, s) == SubSeq(ArrOf(m, m.stores[s].arr), 1, m.stores[s].cap)

Referenced(m, a) == \E s \in DOMAIN m.stores : m.stores[s].arr = a

FreshArr(m) == CHOOSE a \in DOMAIN m.arrays :
                 /\ ~Referenced(m, a)
                 /\ \A a2 \in DOMAIN m.arrays : a2 < a => Referenced(m, a2)

\* Arrays no slice points into are garbage; they are cleared so that equal
\* heaps are equal states.
Collect(m) ==
  [m EXCEPT !.arrays = [a \in DOMAIN m.arrays |->
                          IF Referenced(m, a) THEN m.arrays[a] ELSE <<>>]]

Zeros(n) == [i \in 1..n |-> 0]

\* crunch.Buffer.Grow(n): reslice in place when the array has room, otherwise
\* allocate a zeroed array, copy the old bytes over and point the slice at it.
Grow(m, s, n) ==
  LET st == m.stores[s] IN
  IF n <= GoCap(m, s) - st.cap
  THEN [m EXCEPT !.stores[s].cap = st.cap + n]
  ELSE LET a   == FreshArr(m)
           old == CrunchBytes(m, s)
           tmp == old \o Zeros(GoCap(m, s) * 2 + n - st.cap)
       IN Collect([m EXCEPT !.arrays[a] = tmp,
                            !.stores[s] = [arr |-> a, cap |-> st.cap + n]])

\* crunch.Buffer.WriteBytes(off, data): panics when the range passes the
\* capacity; the copy loop stores data[0] before it tests the length, so an
\* empty data slice and a negative offset are index-out-of-range panics.
WriteBytesPanics(m, s, off, data) ==
  \/ off + Len(data) > m.stores[s].cap
  \/ Len(data) = 0
  \/ off < 0

WriteBytes(m, s, off, data) ==
  LET a == m.stores[s].arr IN
  [m EXCEPT !.arrays[a] =
     [i \in 1..Len(@) |-> IF i > off /\ i <= off + Len(data) THEN data[i - off] ELSE @[i]]]

\* crunch.Buffer.ReadBytes(off, n): b.buf[off : off+n] after the overread check
ReadBytesPanics(m, s, off, n) ==
  \/ off + n > m.stores[s].cap
  \/ off < 0
  \/ n < 0

ReadBytes(m, s, off, n) == SubSeq(ArrOf(m, m.stores[s].arr), off + 1, off + n)

\* crunch.Buffer.Reset: b.buf = []byte{}, capacity 0
CrunchReset(m, s) == Collect([m EXCEPT !.stores[s] = NoStore])

\* ------------------------------------------------------------ Cursor Buffer
RECURSIVE Root(_, _)
Root(m, b) == IF m.bufs[b].parent = 0 THEN b ELSE Root(m, m.bufs[b].parent)

RECURSIVE Chain(_, _)
Chain(m, b) == IF m.bufs[b].parent = 0 THEN {b} ELSE {b} \cup Chain(m, m.bufs[b].parent)

\* The store b.Buffer() resolves to: the root's own crunch buffer.
StoreOf(m, b) == m.bufs[Root(m, b)].buffer

\* Buffer.Closed: a reference answers with its parent's answer, a root with its flag
RECURSIVE Closed(_, _)
Closed(m, b) == IF m.bufs[b].parent # 0 THEN Closed(m, m.bufs[b].parent)
                ELSE m.bufs[b].closed

\* Buffer.Buffer: resolves the store through the parents; every buffer on the
\* way (b included) gets its length refreshed from the store's capacity.
Buffer(m, b) ==
  LET c == CrunchByteCapacity(m, StoreOf(m, b)) IN
  [m EXCEPT !.bufs = [x \in DOMAIN m.bufs |-> IF x \in Chain(m, b)
                                       THEN [m.bufs[x] EXCEPT !.length = c]
                                       ELSE m.bufs[x]]]

\* What a call hands back: the machine after it, the count, the error and,
\* for reads, the bytes copied into dst.
Result(m, n, err, data) == [m |-> m, n |-> n, err |-> err, data |-> data]

ReadOffset(m, b, dstLen, offset) ==
  IF Closed(m, b) THEN Result(m, 0, "EOF", <<>>)
  ELSE LET m1 == Buffer(m, b)
           s  == StoreOf(m1, b)
           t0 == m1.bufs[b].length - offset
           toRead == IF t0 > dstLen THEN dstLen ELSE t0
       IN IF toRead = 0 THEN Result(m1, 0, "nil", <<>>)
          ELSE IF ReadBytesPanics(m1, s, offset, toRead) THEN Result(m1, 0, "panic", <<>>)
          ELSE Result(m1, toRead, "nil", ReadBytes(m1, s, offset, toRead))

\* Read with a reference that moves its parent's cursor along with its own.
Read_AdvancesParent(m, b, dstLen) ==
  IF Closed(m, b) THEN Result(m, 0, "EOF", <<>>)
  ELSE IF m.bufs[b].parent # 0
  THEN LET r == ReadOffset(m, m.bufs[b].parent, dstLen, m.bufs[b].offset)
       IN IF r.err = "panic" THEN r
          ELSE [r EXCEPT !.m.bufs[b].offset = @ + r.n,
                         !.m.bufs[m.bufs[b].parent].offset = @ + r.n]
  ELSE LET m1 == Buffer(m, b)
           s  == StoreOf(m1, b)
           len == m1.bufs[b].length
           off == IF m1.bufs[b].offset >= len THEN len ELSE m1.bufs[b].offset
           m2 == [m1 EXCEPT !.bufs[b].offset = off]
           t0 == len - off
           toRead == IF t0 > dstLen THEN dstLen ELSE t0
       IN IF toRead = 0 THEN Result(m2, 0, "nil", <<>>)
          ELSE IF ReadBytesPanics(m2, s, off, toRead) THEN Result(m2, 0, "panic", <<>>)
          ELSE Result([m2 EXCEPT !.bufs[b].offset = off + toRead], toRead, "nil",
                      ReadBytes(m2, s, off, toRead))

Read(m, b, dstLen) ==
  IF Closed(m, b) THEN Result(m, 0, "EOF", <<>>)
  ELSE IF m.bufs[b].parent # 0
  THEN LET r == ReadOffset(m, m.bufs[b].parent, dstLen, m.bufs[b].offset)
       IN IF r.err = "panic" THEN r
          ELSE [r EXCEPT !.m.bufs[b].offset = @ + r.n]
  ELSE LET m1 == Buffer(m, b)
           s  == StoreOf(m1, b)
           len == m1.bufs[b].length
           off == IF m1.bufs[b].offset >= len THEN len ELSE m1.bufs[b].offset
           m2 == [m1 EXCEPT !.bufs[b].offset = off]
           t0 == len - off
           toRead == IF t0 > dstLen THEN dstLen ELSE t0
       IN IF toRead = 0 THEN Result(m2, 0, "nil", <<>>)
          ELSE IF ReadBytesPanics(m2, s, off, toRead) THEN Result(m2, 0, "panic", <<>>)
          ELSE Result([m2 EXCEPT !.bufs[b].offset = off + toRead], toRead, "nil",
                      ReadBytes(m2, s, off, toRead))

\* GrowAndWrite as the first two iterations of Write grew the store: by
\* len(src) on every write, whatever the offset and the length.
GrowAndWrite_GrowsBySrc(m, b, src, offset) ==
  LET m1 == Buffer(m, b)
      s  == StoreOf(m1, b)
      m2 == Grow([m1 EXCEPT !.bufs[b].length = @ + Len(src)], s, Len(src))
  IN IF WriteBytesPanics(m2, s, offset, src) THEN Result(m2, 0, "panic", <<>>)
     ELSE Result(WriteBytes(m2, s, offset, src), Len(src), "nil", <<>>)

\* The growth and the store write shared by Write (root) and WriteOffset.
GrowAndWrite(m, b, src, offset) ==
  LET m1 == Buffer(m, b)
      s  == StoreOf(m1, b)
      toGrow == (offset + Len(src)) - m1.bufs[b].length
      m2 == IF toGrow > 0
            THEN Grow([m1 EXCEPT !.bufs[b].length = @ + toGrow], s, toGrow)
            ELSE m1
  IN IF WriteBytesPanics(m2, s, offset, src) THEN Result(m2, 0, "panic", <<>>)
     ELSE Result(WriteBytes(m2, s, offset, src), Len(src), "nil", <<>>)

WriteOffset(m, b, src, offset) ==
  IF Closed(m, b) THEN Result(m, 0, "EOF", <<>>)
  ELSE GrowAndWrite(m, b, src, offset)

\* Write with a reference delegating at its parent's offset, not its own.
Write_AtParentOffset(m, b, src) ==
  IF Closed(m, b) THEN Result(m, 0, "EOF", <<>>)
  ELSE LET r == IF m.bufs[b].parent # 0
                THEN WriteOffset(m, m.bufs[b].parent, src,
                                 m.bufs[m.bufs[b].parent].offset)
                ELSE GrowAndWrite(m, b, src, m.bufs[b].offset)
       IN IF r.err = "panic" THEN r
          ELSE [r EXCEPT !.m.bufs[b].offset = @ + r.n]

Write(m, b, src) ==
  IF Closed(m, b) THEN Result(m, 0, "EOF", <<>>)
  ELSE LET r == IF m.bufs[b].parent # 0
                THEN WriteOffset(m, m.bufs[b].parent, src, m.bufs[b].offset)
                ELSE GrowAndWrite(m, b, src, m.bufs[b].offset)
       IN IF r.err = "panic" THEN r
          ELSE [r EXCEPT !.m.bufs[b].offset = @ + r.n]

\* Buffer.Seek: a whence that is none of the three leaves the offset alone
\* and still returns it with a nil error.
Seek(m, b, to, whence) ==
  IF Closed(m, b) THEN Result(m, 0, "EOF", <<>>)
  ELSE LET m1 == Buffer(m, b)
           o  == CASE whence = SeekStart   -> to
                   [] whence = SeekCurrent -> m1.bufs[b].offset + to
                   [] whence = SeekEnd     -> m1.bufs[b].length - to
                   [] OTHER                -> m1.bufs[b].offset
       IN Result([m1 EXCEPT !.bufs[b].offset = o], o, "nil", <<>>)

\* Close that marks b alone and does not go on to the parent.
Close_OwnFlagOnly(m, b) ==
  Result([m EXCEPT !.bufs[b].closed = TRUE], 0, "nil", <<>>)

\* Buffer.Close: sets the flag on b and on every buffer up to the root
Close(m, b) ==
  Result([m EXCEPT !.bufs = [x \in DOMAIN m.bufs |-> IF x \in Chain(m, b)
                                              THEN [m.bufs[x] EXCEPT !.closed = TRUE]
                                              ELSE m.bufs[x]]],
         0, "nil", <<>>)

\* Buffer.Reset: zeroes length and offset of b and of every buffer up to the
\* root, then empties the root's store.  It does not consult Closed.
Reset(m, b) ==
  Result(CrunchReset([m EXCEPT !.bufs = [x \in DOMAIN m.bufs |->
                                 IF x \in Chain(m, b)
                                 THEN [m.bufs[x] EXCEPT !.length = 0, !.offset = 0]
                                 ELSE m.bufs[x]]],
                     StoreOf(m, b)),
         0, "nil", <<>>)

\* Buffer.Bytes: the whole contents of the resolved store
Bytes(m, b) == LET m1 == Buffer(m, b) IN
  Result(m1, 0, "nil", CrunchBytes(m1, StoreOf(m1, b)))

\* Buffer.ByteCapacity / Size: the length after a refresh
ByteCapacity(m, b) == Buffer(m, b).bufs[b].length

RECURSIVE Concat(_)
Concat(ss) == IF ss = <<>> THEN <<>> ELSE Head(ss) \o Concat(Tail(ss))

\* ------------------------------------------------------ Typed Value Encoder
\* A value handed to WriteAbstract: its dynamic Go type and its value (the
\* bytes of a []byte or string, the strings of a []string, the number of a
\* scalar; a bool is 1 or 0).
Value(type, val) == [type |-> type, val |-> val]

Pow256(i) == IF i = 0 THEN 1 ELSE IF i = 1 THEN 256 ELSE IF i = 2 THEN 65536
             ELSE 16777216

\* Little-endian with the bytes in the opposite order.
LE_BigEndian(v, w) == [i \in 1..w |-> (v \div Pow256(w - i)) % 256]

\* crunch WriteU16LE / WriteI16LE / WriteU32LE / WriteI32LE of one element at
\* offset 0: byte i is the value shifted right by 8*i, truncated to 8 bits
\* (\div rounds down, so a negative value gives its two's complement bytes).
LE(v, w) == [i \in 1..w |-> (v \div Pow256(i - 1)) % 256]

Scratch(kind, bytes) == [kind |-> kind, bytes |-> bytes]

\* Dynamic types that match no case of the switch (they have no Read and no
\* Bytes method either): a plain struct, a []bool, a nil interface.
UnsupportedTypes == {"struct", "[]bool", "nil"}

\* The type switch with a default that encodes the value as one zero byte.
Encode_DefaultWritesZero(data) ==
  CASE data.type = "byte" -> Scratch("ok", <<data.val>>)
    [] data.type \in {"bool", "int", "uint", "string"} -> Scratch("panic", <<>>)
    [] data.type = "[]byte" ->
         IF data.val # <<>> THEN Scratch("ok", data.val) ELSE Scratch("panic", <<>>)
    [] data.type = "[]string" ->
         IF \E i \in 1..Len(data.val) : data.val[i] = <<>> THEN Scratch("panic", <<>>)
         ELSE Scratch("ok", Concat(data.val))
    [] data.type \in {"int16", "uint16"} -> Scratch("ok", LE(data.val, 2))
    [] data.type \in {"int32", "uint32"} -> Scratch("ok", LE(data.val, 4))
    [] OTHER -> Scratch("ok", <<0>>)

\* The type switch of WriteAbstract, filling the scratch crunch buffer.  The
\* cases `byte, bool, int, uint` and `[]byte, string` assert the value to the
\* first type of the list, which panics for the others; an empty slice
\* reaches WriteBytes / WriteBytesNext and panics there.
Encode(data) ==
  CASE data.type \in {"byte", "bool", "int", "uint"} ->
         IF data.type = "byte" THEN Scratch("ok", <<data.val>>)
         ELSE Scratch("panic", <<>>)
    [] data.type \in {"[]byte", "string"} ->
         IF data.type = "[]byte" /\ data.val # <<>> THEN Scratch("ok", data.val)
         ELSE Scratch("panic", <<>>)
    [] data.type = "[]string" ->
         IF \E i \in 1..Len(data.val) : data.val[i] = <<>> THEN Scratch("panic", <<>>)
         ELSE Scratch("ok", Concat(data.val))
    [] data.type \in {"int16", "uint16"} -> Scratch("ok", LE(data.val, 2))
    [] data.type \in {"int32", "uint32"} -> Scratch("ok", LE(data.val, 4))
    [] OTHER -> Scratch("unsupported", <<>>)

\* Buffer.WriteAbstract: encode into the scratch buffer, then one Write
WriteAbstract(m, b, data) ==
  LET e == Encode(data) IN
  IF e.kind = "panic" THEN Result(m, 0, "panic", <<>>)
  ELSE IF e.kind = "unsupported" THEN Result(m, 0, "unsupported", <<>>)
  ELSE Write(m, b, e.bytes)

\* Buffer.Reference: a new buffer whose parent is b; nothing else is set
Reference(m, b, nb) ==
  Result([m EXCEPT !.bufs[nb] = [NoBuf EXCEPT !.live = TRUE, !.parent = b]],
         nb, "nil", <<>>)

\* Buffer.Copy: crunch.NewBuffer(b.buffer.Bytes()) with b's own buffer field,
\* which is nil on a reference (nil pointer dereference).  NewBuffer keeps the
\* one slice it is given, and Bytes() hands out the internal slice, so the new
\* store starts on the same array; length is copied from b's field.
Copy(m, b, nb) ==
  IF m.bufs[b].buffer = 0 THEN Result(m, 0, "panic", <<>>)
  ELSE Result([m EXCEPT !.bufs[nb] = [NoBuf EXCEPT !.live = TRUE, !.buffer = nb,
                                                   !.length = m.bufs[b].length],
                        !.stores[nb] = m.stores[m.bufs[b].buffer]],
              nb, "nil", <<>>)

\* NewBuffer(name, slices...): no slice gives an empty store, one slice is
\* kept as it is, several are appended into a new array.
NewBufferIn(bufIds, arrIds, slices) ==
  LET data == Concat(slices) IN
  [bufs   |-> [x \in bufIds |-> IF x = 1
                                THEN [NoBuf EXCEPT !.live = TRUE, !.buffer = 1,
                                                   !.length = Len(data)]
                                ELSE NoBuf],
   stores |-> [s \in bufIds |-> IF s = 1 /\ data # <<>>
                                THEN [arr |-> 1, cap |-> Len(data)] ELSE NoStore],
   arrays |-> [a \in arrIds |-> IF a = 1 THEN data ELSE <<>>]]

NewBuffer(slices) == NewBufferIn(BufIds, ArrIds, slices)

\* The references made right after construction: parents[i] is the buffer
\* whose Reference() returned buffer i + 1.
RECURSIVE WithReferences(_, _, _)
WithReferences(m, parents, i) ==
  IF i > Len(parents) THEN m
  ELSE WithReferences(Reference(m, parents[i], i + 1).m, parents, i + 1)

\* ------------------------------------------------------------------ actions
Live(b) == bufs[b].live
Running == ret.err # "panic" /\ nops < MaxOps
NextBuf == CHOOSE nb \in BufIds : ~Live(nb) /\ \A x \in BufIds : x < nb => Live(x)

\* One call by the caller: the machine becomes the call's machine and ret
\* records the call and what it returned.
Call(op, b, arg, r) ==
  /\ bufs' = r.m.bufs
  /\ stores' = r.m.stores
  /\ arrays' = r.m.arrays
  /\ ret' = [op |-> op, b |-> b, arg |-> arg, n |-> r.n, err |-> r.err, data |-> r.data]
  /\ nops' = nops + 1
  /\ copyOf' = IF op = "Copy" /\ r.err = "nil" THEN [copyOf EXCEPT ![r.n] = b] ELSE copyOf
  /\ UNCHANGED <<thr, mutex>>

InitSlices == {<<>>, << <<1, 2>> >>}

\* A lone root, a root with one reference, a reference of a reference, and
\* two references of the root.
InitParents == {<<>>, <<1>>, <<1, 2>>, <<1, 1>>}

Init ==
  \E slices \in InitSlices, parents \in InitParents :
    LET m == WithReferences(NewBuffer(slices), parents, 1) IN
    /\ bufs = m.bufs
    /\ stores = m.stores
    /\ arrays = m.arrays
    /\ ret = [op |-> "NewBuffer", b |-> 1, arg |-> slices, n |-> 0, err |-> "nil",
              data |-> <<>>]
    /\ nops = 0
    /\ copyOf = [x \in BufIds |-> 0]
    /\ thr = <<>>
    /\ mutex = [x \in BufIds |-> 0]

DoWrite ==
  \E b \in BufIds, src \in Srcs :
    /\ Running /\ Live(b)
    /\ bufs[b].offset + Len(src) <= MaxCap
    /\ Call("Write", b, <<src>>, Write(Machine, b, src))

DoWriteOffset ==
  \E b \in BufIds, src \in OffSrcs, off \in Offs :
    /\ Running /\ Live(b)
    /\ off + Len(src) <= MaxCap
    /\ Call("WriteOffset", b, <<src, off>>, WriteOffset(Machine, b, src, off))

DoRead ==
  \E b \in BufIds, dstLen \in 0..MaxLen :
    /\ Running /\ Live(b)
    /\ Call("Read", b, <<dstLen>>, Read(Machine, b, dstLen))

DoReadOffset ==
  \E b \in BufIds, dstLen \in 1..MaxLen, off \in Offs :
    /\ Running /\ Live(b)
    /\ Call("ReadOffset", b, <<dstLen, off>>, ReadOffset(Machine, b, dstLen, off))

DoSeek ==
  \E b \in BufIds, to \in SeekTos, whence \in Whences :
    /\ Running /\ Live(b)
    /\ Seek(Machine, b, to, whence).n \in Offs
    /\ Call("Seek", b, <<to, whence>>, Seek(Machine, b, to, whence))

DoClose ==
  \E b \in BufIds :
    /\ Running /\ Live(b)
    /\ Call("Close", b, <<>>, Close(Machine, b))

DoReset ==
  \E b \in BufIds :
    /\ Running /\ Live(b)
    /\ Call("Reset", b, <<>>, Reset(Machine, b))

DoReference ==
  \E b \in BufIds :
    /\ Running /\ Live(b)
    /\ \E nb \in BufIds : ~Live(nb)
    /\ Call("Reference", b, <<>>, Reference(Machine, b, NextBuf))

DoCopy ==
  \E b \in BufIds :
    /\ Running /\ Live(b)
    /\ \E nb \in BufIds : ~Live(nb)
    /\ Call("Copy", b, <<>>, Copy(Machine, b, NextBuf))

DoBytes ==
  \E b \in BufIds :
    /\ Running /\ Live(b)
    /\ Call("Bytes", b, <<>>, Bytes(Machine, b))

\* ------------------------------------------- the encoder's specification
EncCap == 6      \* largest store capacity a WriteAbstract may produce

StringAB == Value("string", <<65, 66>>)
Uint16_1 == Value("uint16", 1)

Values ==
  {Value("byte", 7), Value("byte", 255), Value("bool", 1), Value("int", 5),
   Value("int", 300), Value("uint", 5),
   Value("[]byte", <<1, 2>>), Value("[]byte", <<>>), StringAB,
   Value("[]string", << <<65>>, <<66>> >>),
   Uint16_1, Value("uint16", 258), Value("int16", -2),
   Value("uint32", 16909060), Value("uint32", 0), Value("uint32", 2147483647),
   Value("int32", -2),
   Value("struct", 0), Value("[]bool", <<1>>), Value("nil", 0)}

DoWriteAbstract ==
  \E b \in BufIds, data \in Values :
    /\ Running /\ Live(b)
    /\ bufs[b].offset + Len(Encode(data).bytes) <= EncCap
    /\ Call("WriteAbstract", b, <<data>>, WriteAbstract(Machine, b, data))

InitEnc ==
  \E parents \in {<<>>, <<1>>} :
    LET m == WithReferences(NewBuffer(<<>>), parents, 1) IN
    /\ bufs = m.bufs
    /\ stores = m.stores
    /\ arrays = m.arrays
    /\ ret = [op |-> "NewBuffer", b |-> 1, arg |-> <<>>, n |-> 0, err |-> "nil",
              data |-> <<>>]
    /\ nops = 0
    /\ copyOf = [x \in BufIds |-> 0]
    /\ thr = <<>>
    /\ mutex = [x \in BufIds |-> 0]

NextEnc == DoWriteAbstract \/ DoSeek \/ DoClose \/ DoBytes

SpecEnc == InitEnc /\ [][NextEnc]_vars

\* ------------------------------------------------ concurrent Write calls
\* Two goroutines, each making one Write call on a reference of its own.
\* Every step is one lock operation or one access to shared memory, in the
\* order of the code; the accesses that the code makes without the lock of
\* the object they touch interleave freely with the other goroutine's.
Threads     == {1, 2}
ConcBufIds  == 1..4
ConcArrIds  == 1..3
ConcParents == {<<1, 1>>, <<1, 2>>, <<1, 2, 1>>}
ConcSrcs    == {s \in Srcs : Len(s) >= 1}

NoPanic == \A t \in Threads : thr[t].err # "panic"
At(t, pc) == NoPanic /\ thr[t].pc = pc

\* Arrays a goroutine still holds in a local (tmp of Grow) are not garbage.
Held(a) == \E t \in Threads : thr[t].tmp = a

\* b.Lock() at the top of Write
CLock(t) ==
  /\ At(t, "Lock") /\ mutex[thr[t].b] = 0
  /\ mutex' = [mutex EXCEPT ![thr[t].b] = t]
  /\ thr' = [thr EXCEPT ![t].pc = "Closed"]
  /\ UNCHANGED <<bufs, stores, arrays, ret, nops, copyOf>>

\* if b.Closed() { return 0, io.EOF }; a reference goes on to
\* b.parent.WriteOffset(src, b.offset), a root to its own growth
CClosed(t) ==
  LET b == thr[t].b IN
  /\ At(t, "Closed")
  /\ thr' = IF Closed(Machine, b)
            THEN [thr EXCEPT ![t].err = "EOF", ![t].pc = "Unlock"]
            ELSE IF bufs[b].parent # 0
            THEN [thr EXCEPT ![t].g = bufs[b].parent, ![t].off = bufs[b].offset,
                             ![t].pc = "PLock"]
            ELSE [thr EXCEPT ![t].g = b, ![t].off = bufs[b].offset, ![t].pc = "Buffer"]
  /\ UNCHANGED <<bufs, stores, arrays, ret, nops, copyOf, mutex>>

\* b.Lock() at the top of the parent's WriteOffset
CPLock(t) ==
  /\ At(t, "PLock") /\ mutex[thr[t].g] = 0
  /\ mutex' = [mutex EXCEPT ![thr[t].g] = t]
  /\ thr' = [thr EXCEPT ![t].pc = "PClosed"]
  /\ UNCHANGED <<bufs, stores, arrays, ret, nops, copyOf>>

\* if b.Closed() { return 0, io.EOF } in WriteOffset
CPClosed(t) ==
  /\ At(t, "PClosed")
  /\ thr' = IF Closed(Machine, thr[t].g)
            THEN [thr EXCEPT ![t].err = "EOF", ![t].pc = "PUnlock"]
            ELSE [thr EXCEPT ![t].pc = "Buffer"]
  /\ UNCHANGED <<bufs, stores, arrays, ret, nops, copyOf, mutex>>

\* buffer := b.Buffer(): the lengths up to the root are refreshed
CBuffer(t) ==
  /\ At(t, "Buffer")
  /\ bufs' = Buffer(Machine, thr[t].g).bufs
  /\ thr' = [thr EXCEPT ![t].pc = "ToGrow"]
  /\ UNCHANGED <<stores, arrays, ret, nops, copyOf, mutex>>

\* toGrow := (offset + int64(len(src))) - b.length; toGrow > 0
CToGrow(t) ==
  LET toGrow == (thr[t].off + Len(thr[t].src)) - bufs[thr[t].g].length IN
  /\ At(t, "ToGrow")
  /\ thr' = [thr EXCEPT ![t].toGrow = toGrow,
                        ![t].pc = IF toGrow > 0 THEN "LenAdd" ELSE "WriteBytes"]
  /\ UNCHANGED <<bufs, stores, arrays, ret, nops, copyOf, mutex>>

\* b.length += toGrow
CLenAdd(t) ==
  /\ At(t, "LenAdd")
  /\ bufs' = [bufs EXCEPT ![thr[t].g].length = @ + thr[t].toGrow]
  /\ thr' = [thr EXCEPT ![t].pc = "GrowCopy"]
  /\ UNCHANGED <<stores, arrays, ret, nops, copyOf, mutex>>

\* buffer.Grow(toGrow), first half: reslice in place, or make the new array
\* and copy the bytes of the current slice into it
CGrowCopy(t) ==
  LET s  == StoreOf(Machine, thr[t].g)
      st == stores[s]
      n  == thr[t].toGrow
      a  == CHOOSE x \in ConcArrIds : ~Referenced(Machine, x) /\ ~Held(x)
  IN
  /\ At(t, "GrowCopy")
  /\ IF n <= GoCap(Machine, s) - st.cap
     THEN /\ stores' = [stores EXCEPT ![s].cap = st.cap + n]
          /\ thr' = [thr EXCEPT ![t].pc = "WriteBytes"]
          /\ UNCHANGED arrays
     ELSE /\ arrays' = [arrays EXCEPT ![a] = CrunchBytes(Machine, s)
                                             \o Zeros(GoCap(Machine, s) * 2 + n - st.cap)]
          /\ thr' = [thr EXCEPT ![t].tmp = a, ![t].tmpLen = st.cap + n,
                                ![t].pc = "GrowAssign"]
          /\ UNCHANGED stores
  /\ UNCHANGED <<bufs, ret, nops, copyOf, mutex>>

\* buffer.Grow(toGrow), second half: b.buf = tmp; b.Refresh()
CGrowAssign(t) ==
  LET s == StoreOf(Machine, thr[t].g)
      newStores == [stores EXCEPT ![s] = [arr |-> thr[t].tmp, cap |-> thr[t].tmpLen]]
      newThr == [thr EXCEPT ![t].tmp = 0, ![t].tmpLen = 0, ![t].pc = "WriteBytes"]
  IN
  /\ At(t, "GrowAssign")
  /\ stores' = newStores
  /\ thr' = newThr
  /\ arrays' = [a \in ConcArrIds |->
                  IF (\E x \in DOMAIN newStores : newStores[x].arr = a)
                     \/ (\E u \in Threads : newThr[u].tmp = a)
                  THEN arrays[a] ELSE <<>>]
  /\ UNCHANGED <<bufs, ret, nops, copyOf, mutex>>

\* buffer.WriteBytes(offset, src); wrote = len(src).  A panic ends the program.
CWriteBytes(t) ==
  LET s == StoreOf(Machine, thr[t].g) IN
  /\ At(t, "WriteBytes")
  /\ IF WriteBytesPanics(Machine, s, thr[t].off, thr[t].src)
     THEN /\ thr' = [thr EXCEPT ![t].err = "panic", ![t].pc = "panic"]
          /\ UNCHANGED arrays
     ELSE /\ arrays' = WriteBytes(Machine, s, thr[t].off, thr[t].src).arrays
          /\ thr' = [thr EXCEPT ![t].n = Len(thr[t].src),
                                ![t].pc = IF thr[t].g # thr[t].b THEN "PUnlock"
                                          ELSE "Offset"]
  /\ UNCHANGED <<bufs, stores, ret, nops, copyOf, mutex>>

\* the parent's deferred b.Unlock()
CPUnlock(t) ==
  /\ At(t, "PUnlock")
  /\ mutex' = [mutex EXCEPT ![thr[t].g] = 0]
  /\ thr' = [thr EXCEPT ![t].pc = "Offset"]
  /\ UNCHANGED <<bufs, stores, arrays, ret, nops, copyOf>>

\* b.offset += int64(wrote)
COffset(t) ==
  /\ At(t, "Offset")
  /\ bufs' = [bufs EXCEPT ![thr[t].b].offset = @ + thr[t].n]
  /\ thr' = [thr EXCEPT ![t].pc = "Unlock"]
  /\ UNCHANGED <<stores, arrays, ret, nops, copyOf, mutex>>

\* the deferred b.Unlock(); Write returns
CUnlock(t) ==
  /\ At(t, "Unlock")
  /\ mutex' = [mutex EXCEPT ![thr[t].b] = 0]
  /\ thr' = [thr EXCEPT ![t].pc = "done"]
  /\ UNCHANGED <<bufs, stores, arrays, ret, nops, copyOf>>

\* The call a goroutine is about to make.
WriteCall(b, src) ==
  [op |-> "Write", b |-> b, src |-> src, pc |-> "Lock", g |-> 0, off |-> 0,
   toGrow |-> 0, tmp |-> 0, tmpLen |-> 0, n |-> 0, err |-> "nil"]

\* A root, its references, and the two writers positioned by Seek(k, start)
\* on ranges that do not overlap; then the two goroutines start.
InitConc ==
  \E slices \in InitSlices, parents \in ConcParents,
     w1 \in ConcBufIds, w2 \in ConcBufIds, src1 \in ConcSrcs, src2 \in ConcSrcs,
     k1 \in 0..MaxCap, k2 \in 0..MaxCap :
    LET m0 == WithReferences(NewBufferIn(ConcBufIds, ConcArrIds, slices), parents, 1)
        m1 == Seek(m0, w1, k1, SeekStart).m
        m  == Seek(m1, w2, k2, SeekStart).m
    IN /\ w1 < w2 /\ m0.bufs[w1].live /\ m0.bufs[w2].live
       /\ m0.bufs[w1].parent # 0 /\ m0.bufs[w2].parent # 0
       /\ k1 + Len(src1) <= MaxCap /\ k2 + Len(src2) <= MaxCap
       /\ (k1 + Len(src1) <= k2 \/ k2 + Len(src2) <= k1)
       /\ bufs = m.bufs
       /\ stores = m.stores
       /\ arrays = m.arrays
       /\ ret = [op |-> "NewBuffer", b |-> 1, arg |-> slices, n |-> 0, err |-> "nil",
                 data |-> <<>>]
       /\ nops = 0
       /\ copyOf = [x \in ConcBufIds |-> 0]
       /\ thr = [t \in Threads |-> IF t = 1 THEN WriteCall(w1, src1)
                                   ELSE WriteCall(w2, src2)]
       /\ mutex = [x \in ConcBufIds |-> 0]

NextConc ==
  \E t \in Threads :
    \/ CLock(t) \/ CClosed(t) \/ CPLock(t) \/ CPClosed(t) \/ CBuffer(t)
    \/ CToGrow(t) \/ CLenAdd(t) \/ CGrowCopy(t) \/ CGrowAssign(t)
    \/ CWriteBytes(t) \/ CPUnlock(t) \/ COffset(t) \/ CUnlock(t)

SpecConc == InitConc /\ [][NextConc]_vars

\* ------------------------------------------- concurrent calls and their locks
\* Goroutines that each make one call on some buffer of one root's chains.
\* A call is a stack of method frames, one per lock it holds: Lock at the top
\* of a method, then the method's body, which either goes on into the same
\* method family of the parent (a new frame, entered while this one's lock is
\* held) or finishes, and then the deferred Unlocks, innermost first.  A panic
\* in a body unwinds the same way.  Closed() and Buffer() take no lock.
Callers     == {1, 2}
LockBufIds  == 1..6             \* up to four buffers in the chains, two copies
LockArrIds  == 1..4
LockParents == {<<1, 2>>, <<1, 1>>, <<1, 2, 1>>}

\* Calls whose method, on a reference, calls a locking method of the parent.
Delegating == {"Read", "Write", "Close", "Reset"}

\* The one call of every operation a goroutine may make (arguments fixed).
LockCalls ==
  {[op |-> "Read", arg |-> <<1>>], [op |-> "Write", arg |-> <<(<<1>>)>>],
   [op |-> "ReadOffset", arg |-> <<1, 0>>], [op |-> "WriteOffset", arg |-> <<(<<2>>), 1>>],
   [op |-> "Seek", arg |-> <<1, SeekStart>>], [op |-> "Close", arg |-> <<>>],
   [op |-> "Reset", arg |-> <<>>], [op |-> "Copy", arg |-> <<>>],
   [op |-> "Bytes", arg |-> <<>>]}

Top(held) == held[Len(held)]

\* The treatment of a Lock target as the buffer itself rather than its parent.
LockTarget_Self(m, cur) == cur

\* The buffer whose lock a delegated call takes next: b.parent.ReadOffset,
\* b.parent.WriteOffset, b.parent.Close and b.parent.Reset lock their receiver.
LockTarget(m, cur) == m.bufs[cur].parent

NextCopy == CHOOSE nb \in LockBufIds : ~bufs[nb].live /\ \A x \in LockBufIds : x < nb => bufs[x].live

\* b.Lock(): blocks until the mutex is free
LLock(t) ==
  /\ thr[t].pc = "Lock" /\ mutex[thr[t].want] = 0
  /\ mutex' = [mutex EXCEPT ![thr[t].want] = t]
  /\ thr' = [thr EXCEPT ![t].held = Append(@, thr[t].want), ![t].pc = "Body"]
  /\ UNCHANGED <<bufs, stores, arrays, ret, nops, copyOf>>

\* What the body of the frame on top does when it is the last frame: the
\* whole method on the store, as the sequential operators compute it.
LeafResult(t) ==
  LET cur == Top(thr[t].held)
      op  == thr[t].op
      arg == thr[t].arg
      inner == Len(thr[t].held) > 1
  IN CASE op = "Read" /\ inner   -> ReadOffset(Machine, cur, arg[1], thr[t].off)
       [] op = "Read" /\ ~inner  -> Read(Machine, cur, arg[1])
       [] op = "Write" /\ inner  -> WriteOffset(Machine, cur, arg[1], thr[t].off)
       [] op = "Write" /\ ~inner -> Write(Machine, cur, arg[1])
       [] op = "ReadOffset"      -> ReadOffset(Machine, cur, arg[1], arg[2])
       [] op = "WriteOffset"     -> WriteOffset(Machine, cur, arg[1], arg[2])
       [] op = "Seek"            -> Seek(Machine, cur, arg[1], arg[2])
       [] op = "Copy"            -> Copy(Machine, cur, NextCopy)
       [] op = "Bytes"           -> Bytes(Machine, cur)
       [] op = "Close"           -> Result([Machine EXCEPT !.bufs[cur].closed = TRUE],
                                           0, "nil", <<>>)
       [] op = "Reset"           -> Result(CrunchReset([Machine EXCEPT
                                                          !.bufs[cur].length = 0,
                                                          !.bufs[cur].offset = 0],
                                                       bufs[cur].buffer),
                                           0, "nil", <<>>)

\* The body of the frame on top of the stack.
LBody(t) ==
  LET cur == Top(thr[t].held)
      op  == thr[t].op
      descends == /\ op \in Delegating /\ bufs[cur].parent # 0
                  /\ (op \in {"Read", "Write"} => Len(thr[t].held) = 1)
      r == LeafResult(t)
  IN
  /\ thr[t].pc = "Body"
  /\ IF descends
     THEN IF op \in {"Read", "Write"}
          THEN /\ thr' = IF Closed(Machine, cur)
                         THEN [thr EXCEPT ![t].err = "EOF", ![t].pc = "Unlock"]
                         ELSE [thr EXCEPT ![t].off = bufs[cur].offset,
                                          ![t].want = LockTarget(Machine, cur),
                                          ![t].pc = "Lock"]
               /\ UNCHANGED <<bufs, stores, arrays>>
          ELSE /\ bufs' = IF op = "Close" THEN [bufs EXCEPT ![cur].closed = TRUE]
                          ELSE [bufs EXCEPT ![cur].length = 0, ![cur].offset = 0]
               /\ thr' = [thr EXCEPT ![t].want = LockTarget(Machine, cur),
                                     ![t].pc = "Lock"]
               /\ UNCHANGED <<stores, arrays>>
     ELSE /\ bufs' = r.m.bufs
          /\ stores' = r.m.stores
          /\ arrays' = r.m.arrays
          /\ thr' = [thr EXCEPT ![t].n = r.n, ![t].err = r.err, ![t].pc = "Unlock"]
  /\ UNCHANGED <<ret, nops, copyOf, mutex>>

\* The deferred b.Unlock() of the frame on top; the caller's frame goes on
LUnlock(t) ==
  LET rest == SubSeq(thr[t].held, 1, Len(thr[t].held) - 1) IN
  /\ thr[t].pc = "Unlock"
  /\ mutex' = [mutex EXCEPT ![Top(thr[t].held)] = 0]
  /\ thr' = [thr EXCEPT ![t].held = rest,
                        ![t].pc = IF rest = <<>> THEN "done"
                                  ELSE IF thr[t].op \in {"Read", "Write"}
                                          /\ thr[t].err # "panic" THEN "After"
                                  ELSE "Unlock"]
  /\ UNCHANGED <<bufs, stores, arrays, ret, nops, copyOf>>

\* b.offset += int64(read) / int64(wrote), after the parent's method returned
LAfter(t) ==
  /\ thr[t].pc = "After"
  /\ bufs' = [bufs EXCEPT ![Top(thr[t].held)].offset = @ + thr[t].n]
  /\ thr' = [thr EXCEPT ![t].pc = "Unlock"]
  /\ UNCHANGED <<stores, arrays, ret, nops, copyOf, mutex>>

LStep(t) == LLock(t) \/ LBody(t) \/ LUnlock(t) \/ LAfter(t)

LockCall(c, b) ==
  [op |-> c.op, b |-> b, arg |-> c.arg, pc |-> "Lock", want |-> b, held |-> <<>>,
   off |-> 0, n |-> 0, err |-> "nil"]

InitLock ==
  \E parents \in LockParents, c1 \in LockCalls, c2 \in LockCalls,
     b1 \in LockBufIds, b2 \in LockBufIds :
    LET m == WithReferences(NewBufferIn(LockBufIds, LockArrIds, << <<1, 2>> >>),
                            parents, 1)
    IN /\ m.bufs[b1].live /\ m.bufs[b2].live
       /\ bufs = m.bufs
       /\ stores = m.stores
       /\ arrays = m.arrays
       /\ ret = [op |-> "NewBuffer", b |-> 1, arg |-> << <<1, 2>> >>, n |-> 0,
                 err |-> "nil", data |-> <<>>]
       /\ nops = 0
       /\ copyOf = [x \in LockBufIds |-> 0]
       /\ thr = [t \in Callers |-> IF t = 1 THEN LockCall(c1, b1) ELSE LockCall(c2, b2)]
       /\ mutex = [x \in LockBufIds |-> 0]

NextLock == \E t \in Callers : LStep(t)

\* The scheduler runs every goroutine that can take a step.
SpecLock == InitLock /\ [][NextLock]_vars /\ \A t \in Callers : WF_vars(LStep(t))

\* ------------------------------------ WriteAbstract of a readable stream
\* dst.WriteAbstract(src) with src a Cursor Buffer: a *Buffer has a Read
\* method, so the first case of the type switch takes it and io.ReadAll
\* drains it: Read into the free space of a slice that starts with a fixed
\* capacity, stop at the first error (io.EOF counts as success), grow the
\* slice when it is full.  Meanwhile another caller may close the source.
ReadAllCap == 2     \* initial capacity of io.ReadAll's slice (512 in Go)

Draining == thr.pc \in {"Read", "Check"}

\* n, err := r.Read(b[len(b):cap(b)]); b = b[:len(b)+n]
DrainRead ==
  LET r == Read(Machine, thr.src, thr.cap - Len(thr.acc)) IN
  /\ thr.pc = "Read"
  /\ bufs' = r.m.bufs
  /\ stores' = r.m.stores
  /\ arrays' = r.m.arrays
  /\ thr' = [thr EXCEPT !.acc = @ \o r.data, !.n = r.n, !.err = r.err,
                        !.pc = IF r.err = "panic" THEN "done" ELSE "Check"]
  /\ UNCHANGED <<ret, nops, copyOf, mutex>>

\* if err != nil { return b, err }; if len(b) == cap(b) { b = append(b, 0)[:len(b)] }
DrainCheck ==
  /\ thr.pc = "Check"
  /\ thr' = IF thr.err # "nil" THEN [thr EXCEPT !.pc = "Write"]
            ELSE IF Len(thr.acc) = thr.cap THEN [thr EXCEPT !.cap = 2 * @, !.pc = "Read"]
            ELSE [thr EXCEPT !.pc = "Read"]
  /\ UNCHANGED <<bufs, stores, arrays, ret, nops, copyOf, mutex>>

\* buffer.Grow(len(bytes)); buffer.WriteBytes(0, bytes) on the scratch buffer,
\* then b.Write(buffer.Bytes()); WriteAbstract returns
DrainWrite ==
  LET r == IF WriteBytesPanics([stores |-> <<[arr |-> 0, cap |-> Len(thr.acc)]>>],
                               1, 0, thr.acc)
           THEN Result(Machine, 0, "panic", <<>>)
           ELSE Write(Machine, thr.dst, thr.acc)
  IN
  /\ thr.pc = "Write"
  /\ bufs' = r.m.bufs
  /\ stores' = r.m.stores
  /\ arrays' = r.m.arrays
  /\ ret' = [op |-> "WriteAbstract", b |-> thr.dst, arg |-> <<thr.src>>, n |-> r.n,
             err |-> r.err, data |-> thr.acc]
  /\ thr' = [thr EXCEPT !.pc = "done"]
  /\ UNCHANGED <<nops, copyOf, mutex>>

\* Another caller closes the source while it is being drained.
DrainClose ==
  /\ Draining /\ ~Closed(Machine, thr.src)
  /\ bufs' = Close(Machine, thr.src).m.bufs
  /\ UNCHANGED <<stores, arrays, ret, nops, copyOf, thr, mutex>>

\* A root with or without data and its references; the source is positioned
\* by Seek(k, start) and is open; the destination is any buffer, the source
\* itself included.
InitDrain ==
  \E slices \in InitSlices, parents \in InitParents, src \in BufIds, dst \in BufIds,
     k \in 0..1 :
    LET m0 == WithReferences(NewBuffer(slices), parents, 1)
        m  == Seek(m0, src, k, SeekStart).m
    IN /\ m0.bufs[src].live /\ m0.bufs[dst].live
       /\ k <= Len(Concat(slices))
       /\ bufs = m.bufs
       /\ stores = m.stores
       /\ arrays = m.arrays
       /\ ret = [op |-> "NewBuffer", b |-> 1, arg |-> slices, n |-> 0, err |-> "nil",
                 data |-> <<>>]
       /\ nops = 0
       /\ copyOf = [x \in BufIds |-> 0]
       /\ thr = [pc |-> "Read", src |-> src, dst |-> dst, acc |-> <<>>,
                 cap |-> ReadAllCap, n |-> 0, err |-> "nil"]
       /\ mutex = [x \in BufIds |-> 0]

DrainStep == DrainRead \/ DrainCheck \/ DrainWrite

NextDrain == DrainStep \/ DrainClose

\* The caller of WriteAbstract keeps running; nobody has to close the source.
SpecDrain == InitDrain /\ [][NextDrain]_vars /\ WF_vars(DrainStep)

Next ==
  \/ DoWrite \/ DoWriteOffset \/ DoRead \/ DoReadOffset \/ DoSeek
  \/ DoClose \/ DoReset \/ DoReference \/ DoCopy \/ DoBytes

Spec == Init /\ [][Next]_vars

\* ------------------------------------------------------------------- claims
SameRoot(m, x, y) == Root(m, x) = Root(m, y)

\* The bytes observed through buffer x: Bytes() of its resolved store.
Observed(m, x) == CrunchBytes(m, StoreOf(m, x))

\* C1 (as claimed): on a root made with no initial data, Write(s), then
\* Seek(0, start), then Read into len(s) bytes all succeed and the read
\* returns len(s) bytes equal to s.
C1_RoundTrip ==
  [][(ret.op = "NewBuffer" /\ ret.arg = <<>> /\ ret'.op = "Write" /\ ret'.b = 1) =>
       LET s  == ret'.arg[1]
           sk == Seek(Machine', 1, 0, SeekStart)
           rd == Read(sk.m, 1, Len(s))
       IN /\ ret'.err = "nil" /\ ret'.n = Len(s)
          /\ sk.err = "nil" /\ sk.n = 0
          /\ rd.err = "nil" /\ rd.n = Len(s) /\ rd.data = s]_vars

\* C2: a Write or WriteOffset of n bytes at position offset that returns
\* without error on a buffer whose (refreshed) logical length is L leaves the
\* logical length, the store capacity and the length field of the buffer that
\* ran the growth at offset + n when offset + n > L and at L otherwise; and no
\* write, failed or not, makes the logical length of any buffer sharing the
\* store smaller.
C2_GrowthRule ==
  [][ret'.op \in {"Write", "WriteOffset"} =>
       LET b      == ret'.b
           n      == Len(ret'.arg[1])
           offset == IF ret'.op = "Write" THEN bufs[b].offset ELSE ret'.arg[2]
           L      == ByteCapacity(Machine, b)
           want   == IF offset + n > L THEN offset + n ELSE L
           grower == IF ret'.op = "Write" /\ bufs[b].parent # 0 THEN bufs[b].parent ELSE b
       IN /\ ret'.err = "nil" =>
               /\ ByteCapacity(Machine', b) = want
               /\ CrunchByteCapacity(Machine', StoreOf(Machine', b)) = want
               /\ bufs'[grower].length = want
          /\ \A x \in BufIds :
               (bufs[x].live /\ SameRoot(Machine, x, b)) =>
                  ByteCapacity(Machine', x) >= ByteCapacity(Machine, x)]_vars

\* C2 witness: a WriteOffset past the end grew the store over a gap.
C2_Witness ==
  /\ ret.op = "WriteOffset" /\ ret.err = "nil"
  /\ ret.arg[2] >= 2 /\ Len(ret.arg[1]) = 1
  /\ stores[StoreOf(Machine, ret.b)].cap = ret.arg[2] + 1
  /\ bufs[ret.b].parent # 0

\* C3: after a reference (of the root or of another reference) has written w
\* at its own offset k, a read positioned at k through the root, and through
\* every buffer sharing that root, returns w.
C3_Aliasing ==
  (ret.op = "Write" /\ ret.err = "nil" /\ bufs[ret.b].parent # 0) =>
     LET b == ret.b
         w == ret.arg[1]
         k == bufs[b].offset - Len(w)
     IN \A x \in BufIds :
          (bufs[x].live /\ SameRoot(Machine, x, b)) =>
             LET sk == Seek(Machine, x, k, SeekStart)
                 rd == Read(sk.m, x, Len(w))
             IN sk.err = "nil" /\ rd.err = "nil" /\ rd.n = Len(w) /\ rd.data = w

\* C3 witness: a reference of a reference wrote two bytes at its offset 1.
C3_Witness ==
  /\ ret.op = "Write" /\ ret.err = "nil" /\ Len(ret.arg[1]) = 2
  /\ bufs[ret.b].parent # 0 /\ bufs[bufs[ret.b].parent].parent # 0
  /\ bufs[ret.b].offset = 3

\* Close() has returned on some buffer sharing x's root.
CloseReturned(m, x) ==
  \E b \in BufIds : m.bufs[b].live /\ m.bufs[b].closed /\ SameRoot(m, b, x)

\* C5: once Close() has returned on a buffer, Closed() is true on the root
\* and on every buffer sharing it, it stays true, and every Read, Write,
\* ReadOffset, WriteOffset and Seek made afterwards on any of them returns 0
\* and the closed (end-of-data) error.
C5_CloseCascade ==
  [][/\ \A x \in BufIds :
          /\ (bufs'[x].live /\ CloseReturned(Machine', x)) => Closed(Machine', x)
          /\ (bufs[x].live /\ Closed(Machine, x)) => Closed(Machine', x)
     /\ (/\ ret'.op \in {"Read", "Write", "ReadOffset", "WriteOffset", "Seek"}
         /\ CloseReturned(Machine, ret'.b))
        => (ret'.err = "EOF" /\ ret'.n = 0)]_vars

\* C5 witness: a reference was closed and a later Write on the root failed.
C5_Witness ==
  /\ ret.op = "Write" /\ ret.err = "EOF" /\ bufs[ret.b].parent = 0
  /\ \E b \in BufIds : bufs[b].live /\ bufs[b].parent # 0 /\ bufs[b].closed
                       /\ SameRoot(Machine, b, ret.b)
  /\ \E x \in BufIds : bufs[x].live /\ bufs[x].parent = ret.b /\ ~bufs[x].closed

\* C6 (as claimed): after c = b.Copy(), a Write, WriteOffset or Reset on b or
\* on a reference of b leaves the bytes observed through c unchanged, and one
\* on c or on a reference of c leaves those observed through b unchanged.
C6_CopyDecoupled ==
  [][\A c \in BufIds :
       (copyOf[c] # 0 /\ ret'.op \in {"Write", "WriteOffset", "Reset"}) =>
          LET b == copyOf[c] IN
          /\ Root(Machine, ret'.b) = b => Observed(Machine', c) = Observed(Machine, c)
          /\ Root(Machine, ret'.b) = c => Observed(Machine', b) = Observed(Machine, b)]_vars

\* C7 (as claimed): Seek(0, end) followed by a Read into a non-empty
\* destination returns 0 bytes and end-of-data.
C7_SeekEndReadEOF ==
  [][(/\ ret.op = "Seek" /\ ret.arg = <<0, SeekEnd>> /\ ret.err = "nil"
      /\ ret'.op = "Read" /\ ret'.b = ret.b /\ ret'.arg[1] > 0)
     => (ret'.n = 0 /\ ret'.err = "EOF")]_vars

\* C8 (as claimed): on a root made with no initial data, WriteAbstract("AB")
\* succeeds, WriteAbstract(uint16(1)) then succeeds, and Bytes() returns
\* 0x41 0x42 0x01 0x00.
C8_StringThenUint16 ==
  [][(/\ ret.op = "NewBuffer" /\ ret.arg = <<>>
      /\ ret'.op = "WriteAbstract" /\ ret'.b = 1 /\ ret'.arg = <<StringAB>>)
     => LET second == WriteAbstract(Machine', 1, Uint16_1)
        IN /\ ret'.err = "nil" /\ ret'.n = 2
           /\ second.err = "nil" /\ second.n = 2
           /\ Bytes(second.m, 1).data = <<65, 66, 1, 0>>]_vars

\* C9: WriteAbstract of a 32-bit unsigned v on an open buffer at offset
\* o >= 0 returns 4 with no error, advances the offset to o + 4 and leaves at
\* positions o..o+3 the bytes v mod 256, (v / 2^8) mod 256, (v / 2^16) mod 256
\* and v / 2^24; 0x01020304 gives 04 03 02 01.
C9_Uint32LittleEndian ==
  [][(/\ ret'.op = "WriteAbstract" /\ ret'.arg[1].type = "uint32"
      /\ ~Closed(Machine, ret'.b) /\ bufs[ret'.b].offset >= 0)
     => LET b == ret'.b
            v == ret'.arg[1].val
            o == bufs[b].offset
            seen == Observed(Machine', b)
        IN /\ ret'.err = "nil" /\ ret'.n = 4
           /\ bufs'[b].offset = o + 4
           /\ Len(seen) >= o + 4
           /\ seen[o + 1] = v % 256
           /\ seen[o + 2] = (v \div 256) % 256
           /\ seen[o + 3] = (v \div 65536) % 256
           /\ seen[o + 4] = v \div 16777216
           /\ v = 16909060 => SubSeq(seen, o + 1, o + 4) = <<4, 3, 2, 1>>]_vars

\* C9 witness: 0x01020304 was written through the reference at its offset 1.
C9_Witness ==
  /\ ret.op = "WriteAbstract" /\ ret.arg = <<Value("uint32", 16909060)>>
  /\ ret.err = "nil" /\ bufs[ret.b].parent # 0 /\ bufs[ret.b].offset = 5
  /\ Observed(Machine, 1) = <<0, 4, 3, 2, 1>>

\* C10 (as claimed): WriteAbstract of a byte, a bool, an int or a uint on an
\* open buffer at offset o >= 0 succeeds and writes exactly one byte, the low
\* 8 bits of the value, at o.
C10_OneByte ==
  [][(/\ ret'.op = "WriteAbstract"
      /\ ret'.arg[1].type \in {"byte", "bool", "int", "uint"}
      /\ ~Closed(Machine, ret'.b) /\ bufs[ret'.b].offset >= 0)
     => LET b == ret'.b
            o == bufs[b].offset
            seen == Observed(Machine', b)
        IN /\ ret'.err = "nil" /\ ret'.n = 1
           /\ bufs'[b].offset = o + 1
           /\ Len(seen) >= o + 1
           /\ seen[o + 1] = ret'.arg[1].val % 256]_vars

\* C4 (as claimed): two references sharing one root write concurrently to
\* ranges that do not overlap; once both Write calls have returned, both
\* returned without error and each range holds the bytes its writer wrote.
C4_DisjointWrites ==
  (\A t \in Threads : thr[t].pc = "done") =>
     \A t \in Threads :
        /\ thr[t].err = "nil"
        /\ SubSeq(Observed(Machine, 1), thr[t].off + 1, thr[t].off + Len(thr[t].src))
             = thr[t].src

\* C11: WriteAbstract of a value whose type no case of the switch matches
\* returns the unsupported-type error and 0, and changes nothing: not the
\* store (slice and array), not any buffer's length, offset or closed flag.
C11_UnsupportedRejected ==
  [][(ret'.op = "WriteAbstract" /\ ret'.arg[1].type \in UnsupportedTypes)
     => /\ ret'.err = "unsupported" /\ ret'.n = 0
        /\ bufs' = bufs /\ stores' = stores /\ arrays' = arrays
        /\ \A x \in BufIds :
             bufs[x].live => /\ Observed(Machine', x) = Observed(Machine, x)
                             /\ ByteCapacity(Machine', x) = ByteCapacity(Machine, x)]_vars

\* C11 witness: a reference that had written two bytes was then handed an
\* unsupported value.
C11_Witness ==
  /\ ret.op = "WriteAbstract" /\ ret.arg[1].type \in UnsupportedTypes
  /\ ret.err = "unsupported"
  /\ bufs[ret.b].parent # 0 /\ bufs[ret.b].offset = 2
  /\ Len(Observed(Machine, ret.b)) = 2

\* C12 (as claimed): Seek with a whence that is none of start, current and
\* end returns an error and leaves the buffer's offset unchanged.
C12_InvalidWhenceFails ==
  [][(ret'.op = "Seek" /\ ret'.arg[2] \notin {SeekStart, SeekCurrent, SeekEnd})
     => /\ ret'.err # "nil"
        /\ bufs'[ret'.b].offset = bufs[ret'.b].offset]_vars

\* C13: in every interleaving of two concurrent calls (Read, Write,
\* ReadOffset, WriteOffset, Seek, Close, Reset, Copy, Bytes) on buffers of
\* one root's reference chains, a call that takes a lock while holding others
\* takes the lock of the parent of the buffer it locked last, never a lock it
\* already holds, and under fair scheduling every call eventually ends with
\* all its locks released: no call waits forever for a lock.
C13_DeadlockFree ==
  /\ [][\A t \in Callers :
          Len(thr'[t].held) > Len(thr[t].held) =>
            LET x == Top(thr'[t].held) IN
            /\ \A i \in 1..Len(thr[t].held) : thr[t].held[i] # x
            /\ thr[t].held # <<>> => bufs[Top(thr[t].held)].parent = x]_vars
  /\ <>[](\A t \in Callers : thr[t].pc = "done" /\ thr[t].held = <<>>
                               /\ \A x \in LockBufIds : mutex[x] = 0)

\* C13 witness: one goroutine holds the locks of a reference of a reference,
\* of its parent and of the root (Close or Reset on its way up) while the
\* other waits for one of them.
C13_Witness ==
  \E t \in Callers, u \in Callers :
    /\ Len(thr[t].held) = 3
    /\ thr[u].pc = "Lock" /\ mutex[thr[u].want] = t

\* C14 (as claimed): a Read, Write, ReadOffset, WriteOffset, Seek or Reset on
\* a buffer for which Closed() is true fails with the closed condition and
\* changes nothing: no buffer's offset, length or flag, and not the store.
C14_ClosedNoEffect ==
  [][(/\ ret'.op \in {"Read", "Write", "ReadOffset", "WriteOffset", "Seek", "Reset"}
      /\ Closed(Machine, ret'.b))
     => /\ ret'.err = "EOF"
        /\ bufs' = bufs /\ stores' = stores /\ arrays' = arrays]_vars

\* C15: a Read or Write on a reference moves that reference's offset by the
\* number of bytes read or written, a Seek on it sets it to the seek target
\* (to, offset + to, or logical length - to), and the offset of every other
\* buffer (parent, root, other references) stays as it was; a new reference
\* starts at offset 0 whatever the offset of its parent, which is unchanged.
C15_PrivateOffsets ==
  [][/\ (ret'.op \in {"Read", "Write", "Seek"} /\ bufs[ret'.b].parent # 0) =>
          LET b == ret'.b IN
          /\ \A x \in BufIds : x # b => bufs'[x].offset = bufs[x].offset
          /\ ret'.op \in {"Read", "Write"} => bufs'[b].offset = bufs[b].offset + ret'.n
          /\ (ret'.op = "Seek" /\ ret'.err = "nil") =>
                LET to == ret'.arg[1]
                    whence == ret'.arg[2]
                IN /\ whence = SeekStart => bufs'[b].offset = to
                   /\ whence = SeekCurrent => bufs'[b].offset = bufs[b].offset + to
                   /\ whence = SeekEnd => bufs'[b].offset = ByteCapacity(Machine, b) - to
                   /\ ret'.n = bufs'[b].offset
     /\ (ret'.op = "Reference" /\ ret'.err = "nil") =>
          /\ bufs'[ret'.n].offset = 0 /\ bufs'[ret'.n].parent = ret'.b
          /\ \A x \in BufIds : x # ret'.n => bufs'[x].offset = bufs[x].offset]_vars

\* C15 witness: a reference of a reference read two bytes from its offset 0
\* while the root's cursor stood at 1.
C15_Witness ==
  /\ ret.op = "Read" /\ ret.n = 2 /\ ret.err = "nil"
  /\ bufs[ret.b].parent # 0 /\ bufs[bufs[ret.b].parent].parent # 0
  /\ bufs[ret.b].offset = 2 /\ bufs[bufs[ret.b].parent].offset = 0
  /\ bufs[1].offset = 1

\* C16 (as claimed): a ReadOffset, or a Read on a reference, on an open
\* buffer with the offset at or beyond the logical length returns 0 bytes
\* and no error.
C16_ReadBound ==
  [][(/\ \/ ret'.op = "ReadOffset"
         \/ ret'.op = "Read" /\ bufs[ret'.b].parent # 0
      /\ ~Closed(Machine, ret'.b)
      /\ (IF ret'.op = "ReadOffset" THEN ret'.arg[2] ELSE bufs[ret'.b].offset)
            >= ByteCapacity(Machine, ret'.b))
     => (ret'.err = "nil" /\ ret'.n = 0 /\ ret'.data = <<>>)]_vars

\* The goroutine's next step reads the store's capacity (Buffer), grows the
\* store or writes into it.
InStore(t) == thr[t].pc \in {"Buffer", "GrowCopy", "GrowAssign", "WriteBytes"}

\* C17 (as claimed): every access to the backing store is made while the
\* lock of the root that owns the store is held by the goroutine making it,
\* and no two goroutines are inside a store access at the same time.
C17_StoreSerialized ==
  \A t \in Threads :
    InStore(t) =>
      /\ mutex[Root(Machine, thr[t].g)] = t
      /\ \A u \in Threads : u # t => ~InStore(u)

Max(a, b) == IF a >= b THEN a ELSE b

\* C18 (as claimed): once the concurrent writes have all returned, the
\* store's capacity is the largest of the initial capacity and of
\* offset + len(src) over the writes, and not more.
C18_GrowthAtomic ==
  (\A t \in Threads : thr[t].pc = "done" /\ thr[t].err = "nil") =>
     CrunchByteCapacity(Machine, StoreOf(Machine, 1))
       = Max(Len(Concat(ret.arg)),
             Max(thr[1].off + Len(thr[1].src), thr[2].off + Len(thr[2].src)))

\* C19 (as claimed): WriteAbstract of a Cursor Buffer that is open and
\* stays open terminates: the drain loop ends and WriteAbstract returns.
C19_DrainTerminates ==
  <>(Closed(Machine, thr.src) \/ thr.pc = "done")

\* C20 (as claimed): Copy() on a root or on a reference returns a new
\* buffer with a store of its own, no parent, offset 0 and not closed, whose
\* contents are the receiver's Bytes() at that moment and whose logical
\* length is the length of those contents.
C20_CopyAnyBuffer ==
  [][ret'.op = "Copy" =>
       /\ ret'.err = "nil"
       /\ LET c == ret'.n
              seen == Bytes(Machine, ret'.b).data
          IN /\ bufs'[c].live /\ bufs'[c].parent = 0
             /\ bufs'[c].buffer # 0 /\ bufs'[c].buffer # StoreOf(Machine, ret'.b)
             /\ bufs'[c].offset = 0 /\ ~bufs'[c].closed
             /\ Observed(Machine', c) = seen
             /\ ByteCapacity(Machine', c) = Len(seen)]_vars

====
